---- MODULE Spec2Model ----
(***************************************************************************)
(* JS Overrides extension: the popup controller (src/src/popup.tsx) and    *)
(* the page-side injector (src/src/content.js).                            *)
(*                                                                         *)
(* Text is modelled as a sequence of one-character strings, so that the    *)
(* conversions the code performs (encodeURIComponent, decodeURIComponent,  *)
(* btoa, split, trim, indexOf) are computed character by character.        *)
(***************************************************************************)
EXTENDS Integers, Sequences, FiniteSets, TLC

(***************************************************************************)
(* Bounds of the model.                                                    *)
(***************************************************************************)
\* Calls the user makes of the popup's operations in one behaviour.
MaxCalls == 2
\* Overlay frames appended to one page instance.
MaxFrames == 1
\* Segments of a cookie string given to parseCookies.
MaxSegs == 3

(***************************************************************************)
(* Program constants.                                                      *)
(***************************************************************************)
MAX_RETRIES == 3
RETRY_DELAY == 100
COOKIE_CLEAR_DELAY == 100
SCRIPT_PREFIX == "override-script-"

(***************************************************************************)
(* Characters: printable ASCII, code 32 to 126 (code 96 is written as the  *)
(* token "grave").                                                         *)
(***************************************************************************)
Ascii ==
  << " ", "!", "\"", "#", "$", "%", "&", "'", "(", ")", "*", "+", ",", "-", ".", "/",
     "0", "1", "2", "3", "4", "5", "6", "7", "8", "9", ":", ";", "<", "=", ">", "?",
     "@", "A", "B", "C", "D", "E", "F", "G", "H", "I", "J", "K", "L", "M", "N", "O",
     "P", "Q", "R", "S", "T", "U", "V", "W", "X", "Y", "Z", "[", "\\", "]", "^", "_",
     "grave", "a", "b", "c", "d", "e", "f", "g", "h", "i", "j", "k", "l", "m", "n", "o",
     "p", "q", "r", "s", "t", "u", "v", "w", "x", "y", "z", "{", "|", "}", "~" >>

Code(c) == 31 + (CHOOSE i \in 1..Len(Ascii) : Ascii[i] = c)

\* A decoded byte below 0x80 is that character; control characters are kept
\* as a token naming the byte.
CharOf(n) == IF n \in 32..126 THEN Ascii[n - 31] ELSE "\\x" \o ToString(n)

HexDigits == << "0", "1", "2", "3", "4", "5", "6", "7", "8", "9", "A", "B", "C", "D", "E", "F" >>
LowerHex == << "0", "1", "2", "3", "4", "5", "6", "7", "8", "9", "a", "b", "c", "d", "e", "f" >>

IsHex(c) == \E i \in 1..16 : HexDigits[i] = c \/ LowerHex[i] = c
HexVal(c) == (CHOOSE i \in 1..16 : HexDigits[i] = c \/ LowerHex[i] = c) - 1

Letters == { Ascii[i] : i \in (34..59) \cup (66..91) }
Digits == { Ascii[i] : i \in 17..26 }

\* Characters encodeURIComponent leaves as they are.
UriUnreserved == Letters \cup Digits \cup { "-", "_", ".", "!", "~", "*", "'", "(", ")" }

RECURSIVE Concat(_)
Concat(ss) == IF ss = << >> THEN << >> ELSE Head(ss) \o Concat(Tail(ss))

Includes(s, c) == \E i \in 1..Len(s) : s[i] = c

\* String.prototype.indexOf for one character, 1-based; 0 when absent.
IndexOf(s, c) ==
  IF Includes(s, c) THEN CHOOSE i \in 1..Len(s) : s[i] = c /\ \A j \in 1..(i - 1) : s[j] # c
  ELSE 0

IsSpace(c) == c = " "

RECURSIVE TrimStart(_)
TrimStart(s) == IF s # << >> /\ IsSpace(Head(s)) THEN TrimStart(Tail(s)) ELSE s

RECURSIVE TrimEnd(_)
TrimEnd(s) ==
  IF s # << >> /\ IsSpace(s[Len(s)]) THEN TrimEnd(SubSeq(s, 1, Len(s) - 1)) ELSE s

\* String.prototype.trim
Trim(s) == TrimEnd(TrimStart(s))

\* String.prototype.split for a one-character separator.
RECURSIVE Split(_, _)
Split(s, sep) ==
  LET i == IndexOf(s, sep)
  IN IF i = 0 THEN << s >>
     ELSE << SubSeq(s, 1, i - 1) >> \o Split(SubSeq(s, i + 1, Len(s)), sep)

StartsWith(s, p) == Len(s) >= Len(p) /\ SubSeq(s, 1, Len(p)) = p

(***************************************************************************)
(* encodeURIComponent / decodeURIComponent on ASCII text.                  *)
(***************************************************************************)
PercentEncode(c) == << "%", HexDigits[(Code(c) \div 16) + 1], HexDigits[(Code(c) % 16) + 1] >>

encodeURIComponent(s) ==
  Concat([i \in 1..Len(s) |-> IF s[i] \in UriUnreserved THEN << s[i] >> ELSE PercentEncode(s[i])])

\* The decoded text, or [ok |-> FALSE] where decodeURIComponent throws URIError:
\* a "%" not followed by two hex digits, or an escape of a byte from 0x80 up
\* that starts no well-formed UTF-8 sequence.
RECURSIVE DecodeFrom(_)
DecodeFrom(s) ==
  IF s = << >> THEN [ok |-> TRUE, val |-> << >>]
  ELSE IF Head(s) # "%"
    THEN LET r == DecodeFrom(Tail(s))
         IN [ok |-> r.ok, val |-> << Head(s) >> \o r.val]
  ELSE IF Len(s) < 3 \/ ~IsHex(s[2]) \/ ~IsHex(s[3]) THEN [ok |-> FALSE, val |-> << >>]
  ELSE LET b == 16 * HexVal(s[2]) + HexVal(s[3])
           r == DecodeFrom(SubSeq(s, 4, Len(s)))
       IN IF b >= 128 THEN [ok |-> FALSE, val |-> << >>]
          ELSE [ok |-> r.ok, val |-> << CharOf(b) >> \o r.val]

decodeURIComponent(s) == DecodeFrom(s)

(***************************************************************************)
(* btoa: base64 of the text's bytes, with padding.                         *)
(***************************************************************************)
B64 == SubSeq(Ascii, 34, 59) \o SubSeq(Ascii, 66, 91) \o SubSeq(Ascii, 17, 26) \o << "+", "/" >>

B64Digit(n) == B64[n + 1]

RECURSIVE btoaBytes(_)
btoaBytes(b) ==
  IF b = << >> THEN << >>
  ELSE IF Len(b) = 1
    THEN << B64Digit(b[1] \div 4), B64Digit((b[1] % 4) * 16), "=", "=" >>
  ELSE IF Len(b) = 2
    THEN << B64Digit(b[1] \div 4), B64Digit((b[1] % 4) * 16 + (b[2] \div 16)),
            B64Digit((b[2] % 16) * 4), "=" >>
  ELSE << B64Digit(b[1] \div 4), B64Digit((b[1] % 4) * 16 + (b[2] \div 16)),
          B64Digit((b[2] % 16) * 4 + (b[3] \div 64)), B64Digit(b[3] % 64) >>
       \o btoaBytes(SubSeq(b, 4, Len(b)))

btoa(s) == btoaBytes([i \in 1..Len(s) |-> Code(s[i])])

\* String.prototype.replace(/[+/=]/g, "")
StripB64(s) == SelectSeq(s, LAMBDA c : c \notin { "+", "/", "=" })

(***************************************************************************)
(* Override encoding: an entry's cookie name and cookie text.              *)
(***************************************************************************)
\* `${o.appName}/${o.featureKey}`
OverrideKey(o) == o.appName \o << "/" >> \o o.featureKey

\* `${o.appName}/${o.featureKey}=${encodeURIComponent(o.url)}`
CookieText(o) == OverrideKey(o) \o << "=" >> \o encodeURIComponent(o.url)

cookieArray(profile) == [i \in 1..Len(profile.overrides) |-> CookieText(profile.overrides[i])]

cookieKeys(profile) == [i \in 1..Len(profile.overrides) |-> OverrideKey(profile.overrides[i])]

(***************************************************************************)
(* The tab's cookie jar: a sequence of [name, value], one cookie per name, *)
(* in creation order.                                                      *)
(***************************************************************************)
HasCookie(j, n) == \E i \in 1..Len(j) : j[i].name = n

RemoveCookie(j, n) == SelectSeq(j, LAMBDA c : c.name # n)

\* The document.cookie setter: the text up to the first ";" is the pair, the
\* rest are attributes; the pair is split at its first "=" and both halves
\* are trimmed; a cookie of the same name is replaced in place.
SetDocumentCookie(j, text) ==
  LET pair == Split(text, ";")[1]
      eq == IndexOf(pair, "=")
      name == IF eq = 0 THEN << >> ELSE Trim(SubSeq(pair, 1, eq - 1))
      value == IF eq = 0 THEN Trim(pair) ELSE Trim(SubSeq(pair, eq + 1, Len(pair)))
      c == [name |-> name, value |-> value]
  IN IF name = << >> /\ value = << >> THEN j
     ELSE IF HasCookie(j, name) THEN [i \in 1..Len(j) |-> IF j[i].name = name THEN c ELSE j[i]]
     ELSE Append(j, c)

RECURSIVE WriteCookies(_, _)
WriteCookies(j, texts) ==
  IF texts = << >> THEN j ELSE WriteCookies(SetDocumentCookie(j, Head(texts)), Tail(texts))

\* The document.cookie getter: "name=value" pairs joined by "; ".
RECURSIVE DocumentCookie(_)
DocumentCookie(j) ==
  IF j = << >> THEN << >>
  ELSE LET c == Head(j)
           pair == IF c.name = << >> THEN c.value ELSE c.name \o << "=" >> \o c.value
       IN IF Len(j) = 1 THEN pair ELSE pair \o << ";", " " >> \o DocumentCookie(Tail(j))

(***************************************************************************)
(* The injector's functions (content.js).                                  *)
(***************************************************************************)
\* Map.prototype.set on a map kept as a sequence of [key, value] in insertion
\* order.
MapSet(m, k, v) ==
  IF \E i \in 1..Len(m) : m[i].key = k
  THEN [i \in 1..Len(m) |-> IF m[i].key = k THEN [key |-> k, value |-> v] ELSE m[i]]
  ELSE Append(m, [key |-> k, value |-> v])

\* A parser that keeps the value as it stands in the cookie string.
ParseSegmentRaw(m, cookieStr) ==
  LET trimmed == Trim(cookieStr)
      equalIndex == IndexOf(trimmed, "=")
      key == Trim(SubSeq(trimmed, 1, equalIndex - 1))
      value == SubSeq(trimmed, equalIndex + 1, Len(trimmed))
  IN IF trimmed = << >> THEN m
     ELSE IF equalIndex = 0 THEN m
     ELSE IF key = << >> THEN m
     ELSE MapSet(m, key, value)

\* A parser that gives up the whole map at a value it cannot decode.
ParseSegmentAborting(m, cookieStr) ==
  LET trimmed == Trim(cookieStr)
      equalIndex == IndexOf(trimmed, "=")
      key == Trim(SubSeq(trimmed, 1, equalIndex - 1))
      value == SubSeq(trimmed, equalIndex + 1, Len(trimmed))
      d == decodeURIComponent(value)
  IN IF trimmed = << >> THEN m
     ELSE IF equalIndex = 0 THEN m
     ELSE IF key = << >> THEN m
     ELSE IF d.ok THEN MapSet(m, key, d.val)
     ELSE << >>

ParseSegment(m, cookieStr) ==
  LET trimmed == Trim(cookieStr)
      equalIndex == IndexOf(trimmed, "=")
      key == Trim(SubSeq(trimmed, 1, equalIndex - 1))
      value == SubSeq(trimmed, equalIndex + 1, Len(trimmed))
      d == decodeURIComponent(value)
  IN IF trimmed = << >> THEN m
     ELSE IF equalIndex = 0 THEN m
     ELSE IF key = << >> THEN m
     ELSE IF d.ok THEN MapSet(m, key, d.val)
     ELSE MapSet(m, key, value)

RECURSIVE ParseSegments(_, _)
ParseSegments(m, segs) ==
  IF segs = << >> THEN m ELSE ParseSegments(ParseSegment(m, Head(segs)), Tail(segs))

parseCookies(documentCookie) ==
  IF Trim(documentCookie) = << >> THEN << >>
  ELSE ParseSegments(<< >>, Split(documentCookie, ";"))

ToLower(c) == IF c \in { Ascii[i] : i \in 34..59 } THEN CharOf(Code(c) + 32) ELSE c

\* The scheme new URL(url) finds, lower-cased, or << >> when the text starts
\* with no scheme (the parse then fails, there being no base URL).
UrlScheme(url) ==
  LET t == Trim(url)
      i == IndexOf(t, ":")
  IN IF i > 1 /\ t[1] \in Letters
        /\ \A j \in 1..(i - 1) : t[j] \in Letters \cup Digits \cup { "+", "-", "." }
     THEN [j \in 1..(i - 1) |-> ToLower(t[j])]
     ELSE << >>

\* The host new URL(url) finds for a special scheme: what follows the scheme's
\* ":" and any run of slashes, up to the next "/", "?" or "#".
RECURSIVE SkipSlashes(_)
SkipSlashes(s) == IF s # << >> /\ Head(s) \in { "/", "\\" } THEN SkipSlashes(Tail(s)) ELSE s

RECURSIVE TakeHost(_)
TakeHost(s) ==
  IF s = << >> \/ Head(s) \in { "/", "\\", "?", "#" } THEN << >>
  ELSE << Head(s) >> \o TakeHost(Tail(s))

UrlHost(url) ==
  LET t == Trim(url)
  IN TakeHost(SkipSlashes(SubSeq(t, IndexOf(t, ":") + 1, Len(t))))

HostChars == Letters \cup Digits \cup { "-", ".", "_" }

isValidUrl(url) ==
  /\ url # << >>
  /\ UrlScheme(url) \in { << "h", "t", "t", "p" >>, << "h", "t", "t", "p", "s" >> }
  /\ UrlHost(url) # << >>
  /\ \A i \in 1..Len(UrlHost(url)) : UrlHost(url)[i] \in HostChars

\* A candidate rule that asks for more than two characters.
isValidOverrideKeyLonger(key) == key # << >> /\ Includes(key, "/") /\ Len(key) > 2

isValidOverrideKey(key) == key # << >> /\ Includes(key, "/") /\ Len(key) > 1

\* `${SCRIPT_PREFIX}${btoa(key).replace(/[+/=]/g, "")}`
scriptId(key) == << SCRIPT_PREFIX >> \o StripB64(btoa(key))

\* document.getElementById on the script elements of the head, in document
\* order: the index of the first element of that id, 0 when there is none.
getElementById(dom, id) ==
  IF \E i \in 1..Len(dom) : dom[i].id = id
  THEN CHOOSE i \in 1..Len(dom) : dom[i].id = id /\ \A j \in 1..(i - 1) : dom[j].id # id
  ELSE 0

\* Element.remove()
RemoveAt(dom, i) == [j \in 1..(Len(dom) - 1) |-> IF j < i THEN dom[j] ELSE dom[j + 1]]

\* A loadScript without the look-up of an element of the same id.
loadScriptUnchecked(dom, key, url, attempt) ==
  Append(dom, [id |-> scriptId(key), src |-> url, st |-> "loading",
               key |-> key, attempt |-> attempt])

\* loadScript up to appendChild: an element carries its id and src, its load
\* state, and the key and attempt its handlers close over.
loadScript(dom, key, url, attempt) ==
  IF getElementById(dom, scriptId(key)) # 0 THEN dom
  ELSE Append(dom, [id |-> scriptId(key), src |-> url, st |-> "loading",
                    key |-> key, attempt |-> attempt])

\* A loop that ends at the first cookie it does not inject.
RECURSIVE InjectEachUntilSkip(_, _)
InjectEachUntilSkip(dom, cookies) ==
  IF cookies = << >> THEN dom
  ELSE LET c == Head(cookies)
       IN IF ~isValidOverrideKey(c.key) THEN dom
          ELSE IF ~isValidUrl(c.value) THEN dom
          ELSE InjectEachUntilSkip(loadScript(dom, c.key, c.value, 1), Tail(cookies))

RECURSIVE InjectEach(_, _)
InjectEach(dom, cookies) ==
  IF cookies = << >> THEN dom
  ELSE LET c == Head(cookies)
       IN IF ~isValidOverrideKey(c.key) THEN InjectEach(dom, Tail(cookies))
          ELSE IF ~isValidUrl(c.value) THEN InjectEach(dom, Tail(cookies))
          ELSE InjectEach(loadScript(dom, c.key, c.value, 1), Tail(cookies))

injectScripts(dom, documentCookie) == InjectEach(dom, parseCookies(documentCookie))

\* The element id disableProfile's page function looks up for a key.
disableElementId(key) == << SCRIPT_PREFIX >> \o key

RECURSIVE RemoveScripts(_, _)
RemoveScripts(dom, keys) ==
  IF keys = << >> THEN dom
  ELSE LET i == getElementById(dom, disableElementId(Head(keys)))
       IN RemoveScripts(IF i = 0 THEN dom ELSE RemoveAt(dom, i), Tail(keys))

(***************************************************************************)
(* State.                                                                  *)
(***************************************************************************)
VARIABLES
  tab,            \* the active tab: "ok" (id and url), "nourl" (id only), "none"
  jar,            \* the tab's cookie jar
  flag,           \* localStorage["__disable_js_overrides__"] = "true"
  head,           \* the page's injected script elements, in document order
  timers,         \* the page's pending retry timers
  page,           \* the page instance: what loaded it, how far the injector is
  nav,            \* the reload the tab has been asked for and not yet made,
                  \* with the call that asked for it
  frames,         \* overlay frames (with their control panel) in the page body
  storage,        \* chrome.storage.sync["profiles"]
  savedProfiles,  \* popup state
  activeProfiles, \* popup state
  isLoading,      \* popup state
  error,          \* popup state: the message shown, or NoError
  ops,            \* the calls' outstanding host-API callbacks, by call number
  calls,          \* calls made so far
  input,          \* argument given to parseCookies
  output          \* its result

vars == << tab, jar, flag, head, timers, page, nav, frames, storage, savedProfiles,
           activeProfiles, isLoading, error, ops, calls, input, output >>

pageVars == << head, timers, page, frames >>
popupVars == << storage, savedProfiles, activeProfiles, isLoading, error >>
pureVars == << input, output >>

(***************************************************************************)
(* The profiles of the model.                                              *)
(***************************************************************************)
UrlHttps == << "h", "t", "t", "p", "s", ":", "/", "/", "c" >>
UrlHttp == << "h", "t", "t", "p", ":", "/", "/", "e", "?", "v", "=", "1" >>
UrlFtp == << "f", "t", "p", ":", "/", "/", "c" >>

EntryAB == [appName |-> << "a" >>, featureKey |-> << "b" >>, url |-> UrlHttps]
EntryAC == [appName |-> << "a" >>, featureKey |-> << "c" >>, url |-> UrlFtp]
EntryDB == [appName |-> << "d" >>, featureKey |-> << "b" >>, url |-> UrlHttp]

ProfileA == [name |-> "A", overrides |-> << EntryAB, EntryAC >>]
ProfileB == [name |-> "B", overrides |-> << EntryDB >>]

\* A cookie of the site itself.
SessionCookie == [name |-> << "s" >>, value |-> << "1" >>]

NoProfile == [name |-> "", overrides |-> << >>]
\* setError(null)
NoError == "null"
NoNav == [by |-> "none", call |-> 0, prof |-> NoProfile, bypassCache |-> FALSE]
FreeOp == [kind |-> "none", pc |-> "free", prof |-> NoProfile, wait |-> {}, pend |-> {},
           removedCount |-> 0, totalToRemove |-> 0, updated |-> << >>,
           outer |-> "none", editing |-> NoProfile, next |-> NoProfile, reapply |-> FALSE]

Slots == 1..MaxCalls
\* The i-th call is made now.
NewCall(i) == calls < MaxCalls /\ i = calls + 1 /\ calls' = calls + 1

Names(profiles) == { profiles[i].name : i \in 1..Len(profiles) }
Saved == { savedProfiles[i] : i \in 1..Len(savedProfiles) }

\* prev.includes(name) ? prev : [...prev, name]
AddActive(prev, name) ==
  IF \E i \in 1..Len(prev) : prev[i] = name THEN prev ELSE Append(prev, name)

\* prev.filter((n) => n !== name)
DropActive(prev, name) == SelectSeq(prev, LAMBDA n : n # name)

\* What the content script leaves in a page whose loads have all succeeded.
Loaded(dom) == [n \in 1..Len(dom) |-> [dom[n] EXCEPT !.st = "loaded"]]

\* The jar when the popup opens: the site's own cookie, alone or with the
\* override cookies earlier popup sessions left in the tab.
InitJars ==
  { << SessionCookie >>,
    WriteCookies(<< SessionCookie >>, cookieArray(ProfileA) \o cookieArray(ProfileB)) }

\* The popup opens on a tab whose page has loaded and run the content script.
Init ==
  /\ tab \in { "ok", "nourl", "none" }
  /\ jar \in InitJars
  /\ flag = FALSE
  /\ head = Loaded(injectScripts(<< >>, DocumentCookie(jar)))
  /\ timers = {}
  /\ page = [by |-> NoNav, inj |-> "done"]
  /\ nav = NoNav
  /\ frames = 0
  /\ storage = << ProfileA, ProfileB >>
  /\ savedProfiles = << ProfileA, ProfileB >>
  /\ activeProfiles = << >>
  /\ isLoading = FALSE
  /\ error = NoError
  /\ ops = [i \in Slots |-> FreeOp]
  /\ calls = 0
  /\ input = << >>
  /\ output = << >>

(***************************************************************************)
(* clearAllOverrideCookies, as awaited by applyProfile and applyOverlay.   *)
(*                                                                         *)
(* A chrome.tabs.query callback reads nothing but the tab, which does not  *)
(* change in a behaviour, so it is taken in one step with the code that    *)
(* issues the query.                                                       *)
(***************************************************************************)
\* Where clearAllOverrideCookies stands once its chrome.tabs.query callback
\* has run: resolved when the tab has no id or no url, else at getAll.
ClearStart == IF tab # "ok" THEN "cont" ELSE "clear_getall"

\* cookies.filter((cookie) => cookie.name.includes("/"))
OverrideCookieNames(j) == { j[k].name : k \in { n \in 1..Len(j) : Includes(j[n].name, "/") } }

\* The chrome.cookies.getAll callback: the snapshot, and one remove per cookie.
ClearGetAll(i) ==
  /\ ops[i].pc = "clear_getall"
  /\ LET overrideCookies == OverrideCookieNames(jar)
     IN ops' = [ops EXCEPT ![i].pc = IF overrideCookies = {} THEN "cont" ELSE "clear_remove",
                           ![i].pend = overrideCookies,
                           ![i].removedCount = 0,
                           ![i].totalToRemove = Cardinality(overrideCookies)]
  /\ UNCHANGED << tab, jar, flag, pageVars, nav, popupVars, calls, pureVars >>

\* A removal callback that resolves at the first acknowledgement.
ClearRemoveAckFirst(i, c) ==
  /\ ops[i].pc = "clear_remove"
  /\ c \in ops[i].pend
  /\ jar' = RemoveCookie(jar, c)
  /\ ops' = [ops EXCEPT ![i].pend = @ \ { c },
                        ![i].removedCount = @ + 1,
                        ![i].pc = "cont"]
  /\ UNCHANGED << tab, flag, pageVars, nav, popupVars, calls, pureVars >>

\* One chrome.cookies.remove and its callback.
ClearRemoveAck(i, c) ==
  /\ ops[i].pc = "clear_remove"
  /\ c \in ops[i].pend
  /\ jar' = RemoveCookie(jar, c)
  /\ ops' = [ops EXCEPT ![i].pend = @ \ { c },
                        ![i].removedCount = @ + 1,
                        ![i].pc = IF ops[i].removedCount + 1 = ops[i].totalToRemove
                                  THEN "cont" ELSE "clear_remove"]
  /\ UNCHANGED << tab, flag, pageVars, nav, popupVars, calls, pureVars >>

(***************************************************************************)
(* applyProfile                                                            *)
(***************************************************************************)
\* The call, up to its await.
ApplyAccept(i, profile) ==
  /\ ~isLoading
  /\ NewCall(i)
  /\ isLoading' = TRUE
  /\ error' = NoError
  /\ ops' = [ops EXCEPT ![i] = [FreeOp EXCEPT !.kind = "apply", !.pc = ClearStart,
                                              !.prof = profile]]
  /\ UNCHANGED << tab, jar, flag, pageVars, nav, storage, savedProfiles, activeProfiles,
                  pureVars >>

\* After the await: the second chrome.tabs.query is issued and the finally
\* block resets isLoading; the query's callback calls executeScript when
\* tab?.id !== undefined.
ApplyCont(i) ==
  /\ ops[i].kind = "apply"
  /\ ops[i].pc = "cont"
  /\ isLoading' = FALSE
  /\ ops' = [ops EXCEPT ![i] = IF tab = "none" THEN FreeOp ELSE [@ EXCEPT !.pc = "exec"]]
  /\ UNCHANGED << tab, jar, flag, pageVars, nav, storage, savedProfiles, activeProfiles,
                  calls, pureVars, error >>

\* The function executeScript runs in the page.  The callback that calls
\* executeScript asks for the tab's id only, not for its url.
ApplyExec(i) ==
  /\ ops[i].kind = "apply"
  /\ ops[i].pc = "exec"
  /\ flag' = FALSE
  /\ jar' = WriteCookies(jar, cookieArray(ops[i].prof))
  /\ ops' = [ops EXCEPT ![i].pc = "then"]
  /\ UNCHANGED << tab, pageVars, nav, popupVars, calls, pureVars >>

\* executeScript rejects: .catch(console.error)
ApplyExecReject(i) ==
  /\ ops[i].kind = "apply"
  /\ ops[i].pc = "exec"
  /\ ops' = [ops EXCEPT ![i] = FreeOp]
  /\ UNCHANGED << tab, jar, flag, pageVars, nav, popupVars, calls, pureVars >>

\* .then: the profile is marked active and the tab is reloaded.
ApplyThen(i) ==
  /\ ops[i].kind = "apply"
  /\ ops[i].pc = "then"
  /\ activeProfiles' = AddActive(activeProfiles, ops[i].prof.name)
  /\ nav' = [by |-> "apply", call |-> i, prof |-> ops[i].prof, bypassCache |-> FALSE]
  /\ ops' = [ops EXCEPT ![i] = FreeOp]
  /\ UNCHANGED << tab, jar, flag, pageVars, storage, savedProfiles, isLoading, calls, pureVars, error >>

(***************************************************************************)
(* applyOverlay                                                            *)
(***************************************************************************)
OverlaysInFlight == Cardinality({ i \in Slots : ops[i].kind = "overlay" })

OverlayAccept(i, profile) ==
  /\ ~isLoading
  /\ NewCall(i)
  /\ frames + OverlaysInFlight < MaxFrames
  /\ isLoading' = TRUE
  /\ error' = NoError
  /\ ops' = [ops EXCEPT ![i] = [FreeOp EXCEPT !.kind = "overlay", !.pc = ClearStart,
                                              !.prof = profile]]
  /\ UNCHANGED << tab, jar, flag, pageVars, nav, storage, savedProfiles, activeProfiles,
                  pureVars >>

OverlayCont(i) ==
  /\ ops[i].kind = "overlay"
  /\ ops[i].pc = "cont"
  /\ isLoading' = FALSE
  /\ ops' = [ops EXCEPT ![i] = IF tab = "none" THEN FreeOp ELSE [@ EXCEPT !.pc = "exec"]]
  /\ UNCHANGED << tab, jar, flag, pageVars, nav, storage, savedProfiles, activeProfiles,
                  calls, pureVars, error >>

\* The page function: flag removed, cookies written, frame and controls
\* appended to the body.
OverlayExec(i) ==
  /\ ops[i].kind = "overlay"
  /\ ops[i].pc = "exec"
  /\ flag' = FALSE
  /\ jar' = WriteCookies(jar, cookieArray(ops[i].prof))
  /\ frames' = frames + 1
  /\ ops' = [ops EXCEPT ![i].pc = "then"]
  /\ UNCHANGED << tab, head, timers, page, nav, popupVars, calls, pureVars >>

OverlayExecReject(i) ==
  /\ ops[i].kind = "overlay"
  /\ ops[i].pc = "exec"
  /\ ops' = [ops EXCEPT ![i] = FreeOp]
  /\ UNCHANGED << tab, jar, flag, pageVars, nav, popupVars, calls, pureVars >>

\* An overlay that reloads the tab as applyProfile does.
OverlayThenReload(i) ==
  /\ ops[i].kind = "overlay"
  /\ ops[i].pc = "then"
  /\ activeProfiles' = AddActive(activeProfiles, ops[i].prof.name)
  /\ nav' = [by |-> "apply", call |-> i, prof |-> ops[i].prof, bypassCache |-> FALSE]
  /\ ops' = [ops EXCEPT ![i] = FreeOp]
  /\ UNCHANGED << tab, jar, flag, pageVars, storage, savedProfiles, isLoading, calls, pureVars, error >>

OverlayThen(i) ==
  /\ ops[i].kind = "overlay"
  /\ ops[i].pc = "then"
  /\ activeProfiles' = AddActive(activeProfiles, ops[i].prof.name)
  /\ ops' = [ops EXCEPT ![i] = FreeOp]
  /\ UNCHANGED << tab, jar, flag, pageVars, nav, storage, savedProfiles, isLoading, calls, pureVars, error >>

(***************************************************************************)
(* disableProfile                                                          *)
(***************************************************************************)
\* Where disableProfile stands once its chrome.tabs.query callback has run:
\* resolved when the tab has no id or no url, else one
\* chrome.cookies.getAll per key is outstanding.
DisableStart(profile) ==
  IF tab # "ok" THEN FreeOp
  ELSE IF cookieKeys(profile) = << >>
    THEN [FreeOp EXCEPT !.kind = "disable", !.pc = "exec", !.prof = profile]
  ELSE [FreeOp EXCEPT !.kind = "disable", !.pc = "remove", !.prof = profile,
                      !.wait = DOMAIN cookieKeys(profile)]

\* The call: setIsLoading(true) and the finally block's setIsLoading(false)
\* run in the same synchronous call, before any callback, so the state the
\* popup commits is isLoading = false.
DisableAccept(i, profile) ==
  /\ ~isLoading
  /\ NewCall(i)
  /\ isLoading' = FALSE
  /\ error' = NoError
  /\ ops' = [ops EXCEPT ![i] = DisableStart(profile)]
  /\ UNCHANGED << tab, jar, flag, pageVars, nav, storage, savedProfiles, activeProfiles,
                  pureVars >>

\* Promise.all resolves once every key's promise has.
DisableNextPc(wait, pend) == IF wait = {} /\ pend = {} THEN "exec" ELSE "remove"

\* The chrome.cookies.getAll({ name: key }) callback of the k-th key.
DisableGetAll(i, k) ==
  /\ ops[i].kind = "disable"
  /\ ops[i].pc = "remove"
  /\ k \in ops[i].wait
  /\ LET key == cookieKeys(ops[i].prof)[k]
         wait == ops[i].wait \ { k }
         pend == IF HasCookie(jar, key) THEN ops[i].pend \cup { k } ELSE ops[i].pend
     IN ops' = [ops EXCEPT ![i].wait = wait, ![i].pend = pend,
                           ![i].pc = DisableNextPc(wait, pend)]
  /\ UNCHANGED << tab, jar, flag, pageVars, nav, popupVars, calls, pureVars >>

\* A removal of every override cookie, as clearAllOverrideCookies makes it.
DisableRemovedAll(j, key) == SelectSeq(j, LAMBDA c : ~Includes(c.name, "/"))

\* The cookies disableProfile removes for one key: those getAll returned for
\* that name.
DisableRemoved(j, key) == RemoveCookie(j, key)

\* The chrome.cookies.remove of the k-th key's cookie, and its callback.
DisableRemoveAck(i, k) ==
  /\ ops[i].kind = "disable"
  /\ ops[i].pc = "remove"
  /\ k \in ops[i].pend
  /\ jar' = DisableRemoved(jar, cookieKeys(ops[i].prof)[k])
  /\ ops' = [ops EXCEPT ![i].pend = @ \ { k },
                        ![i].pc = DisableNextPc(ops[i].wait, ops[i].pend \ { k })]
  /\ UNCHANGED << tab, flag, pageVars, nav, popupVars, calls, pureVars >>

\* The page function: the flag is set and the profile's script elements are
\* looked up by id and removed.
DisableExec(i) ==
  /\ ops[i].kind = "disable"
  /\ ops[i].pc = "exec"
  /\ flag' = TRUE
  /\ head' = RemoveScripts(head, cookieKeys(ops[i].prof))
  /\ ops' = [ops EXCEPT ![i].pc = "then"]
  /\ UNCHANGED << tab, jar, timers, page, frames, nav, popupVars, calls, pureVars >>

\* executeScript rejects: .catch(reject).  When saveProfile awaits the
\* promise, its catch block shows the error and its finally block runs.
DisableExecReject(i) ==
  /\ ops[i].kind = "disable"
  /\ ops[i].pc = "exec"
  /\ ops' = [ops EXCEPT ![i] = FreeOp]
  /\ error' = IF ops[i].outer = "save" THEN "Failed to save profile" ELSE error
  /\ isLoading' = IF ops[i].outer = "save" THEN FALSE ELSE isLoading
  /\ UNCHANGED << tab, jar, flag, pageVars, nav, storage, savedProfiles, activeProfiles,
                  calls, pureVars >>

\* .then: the profile is no longer active, the tab is reloaded and the
\* promise resolves.  When saveProfile awaits it, saveProfile goes on to
\* chrome.storage.sync.set and its finally block.
DisableThen(i) ==
  /\ ops[i].kind = "disable"
  /\ ops[i].pc = "then"
  /\ activeProfiles' = DropActive(activeProfiles, ops[i].prof.name)
  /\ nav' = [by |-> "disable", call |-> i, prof |-> ops[i].prof, bypassCache |-> TRUE]
  /\ ops' = [ops EXCEPT ![i] = IF ops[i].outer = "save"
                                THEN [@ EXCEPT !.kind = "save", !.pc = "callback"]
                                ELSE FreeOp]
  /\ isLoading' = IF ops[i].outer = "save" THEN FALSE ELSE isLoading
  /\ UNCHANGED << tab, jar, flag, pageVars, storage, savedProfiles, calls, pureVars, error >>

(***************************************************************************)
(* deleteProfile                                                           *)
(***************************************************************************)
\* The call: the filtered collection is handed to chrome.storage.sync.set;
\* isLoading is set and reset in the same synchronous call.
DeleteAccept(i, name) ==
  /\ ~isLoading
  /\ NewCall(i)
  /\ isLoading' = FALSE
  /\ error' = NoError
  /\ ops' = [ops EXCEPT ![i] = [FreeOp EXCEPT !.kind = "delete", !.pc = "callback",
                                              !.prof = [NoProfile EXCEPT !.name = name],
                                              !.updated = SelectSeq(savedProfiles,
                                                            LAMBDA p : p.name # name)]]
  /\ UNCHANGED << tab, jar, flag, pageVars, nav, storage, savedProfiles, activeProfiles,
                  pureVars >>

\* A delete that leaves the active-profile set as it is.
DeleteCallbackKeepsActive(i) ==
  /\ ops[i].kind = "delete"
  /\ ops[i].pc = "callback"
  /\ storage' = ops[i].updated
  /\ savedProfiles' = ops[i].updated
  /\ ops' = [ops EXCEPT ![i] = FreeOp]
  /\ UNCHANGED << tab, jar, flag, pageVars, nav, activeProfiles, isLoading, calls, pureVars, error >>

\* The write and its callback.
DeleteCallback(i) ==
  /\ ops[i].kind = "delete"
  /\ ops[i].pc = "callback"
  /\ storage' = ops[i].updated
  /\ savedProfiles' = ops[i].updated
  /\ activeProfiles' = DropActive(activeProfiles, ops[i].prof.name)
  /\ ops' = [ops EXCEPT ![i] = FreeOp]
  /\ UNCHANGED << tab, jar, flag, pageVars, nav, isLoading, calls, pureVars, error >>

(***************************************************************************)
(* saveProfile                                                             *)
(***************************************************************************)
\* A profile name as a string, from the characters typed.
RECURSIVE Str(_)
Str(s) == IF s = << >> THEN "" ELSE Head(s) \o Str(Tail(s))

canSaveProfile(profileName, entries) ==
  /\ Trim(profileName) # << >>
  /\ \E k \in 1..Len(entries) :
       /\ Trim(entries[k].appName) # << >>
       /\ Trim(entries[k].featureKey) # << >>
       /\ Trim(entries[k].url) # << >>

\* savedProfiles.map((p) => p.name === editingProfile.name ? updatedProfile : p)
\* when editing, [...savedProfiles, updatedProfile] otherwise.
updatedProfiles(editingProfile, updatedProfile) ==
  IF editingProfile # NoProfile
  THEN [k \in 1..Len(savedProfiles) |->
          IF savedProfiles[k].name = editingProfile.name THEN updatedProfile
          ELSE savedProfiles[k]]
  ELSE Append(savedProfiles, updatedProfile)

\* saveProfile at chrome.storage.sync.set, its callback outstanding.
SaveAtSet(editingProfile, updatedProfile, reapply) ==
  [FreeOp EXCEPT !.kind = "save", !.pc = "callback", !.outer = "save",
                 !.editing = editingProfile, !.next = updatedProfile,
                 !.updated = updatedProfiles(editingProfile, updatedProfile),
                 !.reapply = reapply]

\* saveProfile at `await disableProfile(editingProfile)`: the disable's
\* callbacks are outstanding, unless it resolved at once.
SaveAtDisable(editingProfile, updatedProfile) ==
  IF DisableStart(editingProfile) = FreeOp
  THEN SaveAtSet(editingProfile, updatedProfile, TRUE)
  ELSE [DisableStart(editingProfile) EXCEPT
          !.outer = "save", !.editing = editingProfile, !.next = updatedProfile,
          !.updated = updatedProfiles(editingProfile, updatedProfile),
          !.reapply = TRUE]

\* The call, with the form as it stands: the profile being edited
\* (NoProfile when a profile is created), the name and the entries typed.
\* isLoading, set at the start, is reset by the finally block of
\* disableProfile or of saveProfile itself before the call yields, except at
\* the first return, which comes before the try statement.
saveProfile(i, editingProfile, profileName, entries) ==
  /\ ~isLoading
  /\ NewCall(i)
  /\ error' = NoError
  /\ LET trimmedProfileName == Str(Trim(profileName))
         isEditing == editingProfile # NoProfile
         existingProfile == trimmedProfileName \in Names(savedProfiles)
         updatedProfile == [name |-> trimmedProfileName, overrides |-> entries]
     IN IF profileName = << >> \/ entries = << >>
        THEN isLoading' = TRUE /\ ops' = ops
        ELSE /\ isLoading' = FALSE
             /\ ops' = [ops EXCEPT ![i] =
                          IF ~isEditing /\ existingProfile THEN FreeOp
                          ELSE IF isEditing /\ Includes(activeProfiles, trimmedProfileName)
                            THEN SaveAtDisable(editingProfile, updatedProfile)
                          ELSE SaveAtSet(editingProfile, updatedProfile, FALSE)]
  /\ UNCHANGED << tab, jar, flag, pageVars, nav, storage, savedProfiles, activeProfiles,
                  pureVars >>

\* A click on Save Profile: the button is enabled when canSaveProfile holds.
SaveAccept(i, editingProfile, profileName, entries) ==
  /\ canSaveProfile(profileName, entries)
  /\ saveProfile(i, editingProfile, profileName, entries)

\* The write and its callback: the collection computed at the call is
\* stored and shown, and the re-apply is put on a timer.
SaveCallback(i) ==
  /\ ops[i].kind = "save"
  /\ ops[i].pc = "callback"
  /\ storage' = ops[i].updated
  /\ savedProfiles' = ops[i].updated
  /\ ops' = [ops EXCEPT ![i] = IF ops[i].reapply THEN [@ EXCEPT !.pc = "timer"] ELSE FreeOp]
  /\ UNCHANGED << tab, jar, flag, pageVars, nav, activeProfiles, isLoading, error, calls,
                  pureVars >>

\* The timer, COOKIE_CLEAR_DELAY later: applyProfile(updatedProfile), the
\* function of the render in which Save was clicked, whose isLoading is
\* false.
SaveTimer(i) ==
  /\ ops[i].kind = "save"
  /\ ops[i].pc = "timer"
  /\ isLoading' = TRUE
  /\ error' = NoError
  /\ ops' = [ops EXCEPT ![i] = [@ EXCEPT !.kind = "apply", !.pc = ClearStart,
                                         !.prof = ops[i].next]]
  /\ UNCHANGED << tab, jar, flag, pageVars, nav, storage, savedProfiles, activeProfiles,
                  calls, pureVars >>

\* The timer that clears the error message after 5 s.
ErrorTimeout ==
  /\ error # NoError
  /\ error' = NoError
  /\ UNCHANGED << tab, jar, flag, pageVars, nav, storage, savedProfiles, activeProfiles,
                  isLoading, ops, calls, pureVars >>

(***************************************************************************)
(* The page: reload, the content script, script load events, retry timers. *)
(***************************************************************************)
\* The tab makes the reload it was asked for: a new page instance.  The flag
\* is in localStorage and the cookies are in the jar: both outlive the page.
PageLoad ==
  /\ nav # NoNav
  /\ page' = [by |-> nav, inj |-> "none"]
  /\ nav' = NoNav
  /\ head' = << >>
  /\ timers' = {}
  /\ frames' = 0
  /\ UNCHANGED << tab, jar, flag, popupVars, ops, calls, pureVars >>

\* The content script runs: the disable check, then initialize(), which
\* injects at once when document.head exists and otherwise waits for the
\* document.
InjectorStart ==
  /\ page.inj = "none"
  /\ \/ /\ flag
        /\ page' = [page EXCEPT !.inj = "stopped"]
        /\ head' = head
     \/ /\ ~flag
        /\ page' = [page EXCEPT !.inj = "done"]
        /\ head' = injectScripts(head, DocumentCookie(jar))
     \/ /\ ~flag
        /\ page' = [page EXCEPT !.inj = "deferred"]
        /\ head' = head
  /\ UNCHANGED << tab, jar, flag, timers, frames, nav, popupVars, ops, calls, pureVars >>

\* DOMContentLoaded, or the zero timeout: the deferred injectScripts.
DomReady ==
  /\ page.inj = "deferred"
  /\ page' = [page EXCEPT !.inj = "done"]
  /\ head' = injectScripts(head, DocumentCookie(jar))
  /\ UNCHANGED << tab, jar, flag, timers, frames, nav, popupVars, ops, calls, pureVars >>

\* script.onload
ScriptLoad(n) ==
  /\ head[n].st = "loading"
  /\ head' = [head EXCEPT ![n].st = "loaded"]
  /\ UNCHANGED << tab, jar, flag, timers, page, frames, nav, popupVars, ops, calls, pureVars >>

\* A retry after the last attempt too.
RetryTimersOneMore(key, url, attempt) ==
  IF attempt <= MAX_RETRIES
  THEN { [key |-> key, url |-> url, attempt |-> attempt, delay |-> RETRY_DELAY * attempt] }
  ELSE {}

\* The timer script.onerror sets after the attempt-th failure, if any.
RetryTimers(key, url, attempt) ==
  IF attempt < MAX_RETRIES
  THEN { [key |-> key, url |-> url, attempt |-> attempt, delay |-> RETRY_DELAY * attempt] }
  ELSE {}

\* script.onerror
ScriptError(n) ==
  /\ head[n].st = "loading"
  /\ head' = [head EXCEPT ![n].st = "error"]
  /\ timers' = timers \cup RetryTimers(head[n].key, head[n].src, head[n].attempt)
  /\ UNCHANGED << tab, jar, flag, page, frames, nav, popupVars, ops, calls, pureVars >>

\* An abort handler that schedules the retry as the error handler does.
ScriptAbortRetries(n) ==
  /\ head[n].st = "loading"
  /\ head' = [head EXCEPT ![n].st = "aborted"]
  /\ timers' = timers \cup RetryTimers(head[n].key, head[n].src, head[n].attempt)
  /\ UNCHANGED << tab, jar, flag, page, frames, nav, popupVars, ops, calls, pureVars >>

\* script.onabort
ScriptAbort(n) ==
  /\ head[n].st = "loading"
  /\ head' = [head EXCEPT ![n].st = "aborted"]
  /\ UNCHANGED << tab, jar, flag, timers, page, frames, nav, popupVars, ops, calls, pureVars >>

\* A retry that removes the first script element of the head, whatever its
\* id.
RetryRemovesFirst(dom, t) ==
  loadScript(IF dom # << >> THEN Tail(dom) ELSE dom, t.key, t.url, t.attempt + 1)

\* The retry timer's callback: the failed element is removed and loadScript
\* is called for the next attempt.
Retry(dom, t) ==
  LET failedScript == getElementById(dom, scriptId(t.key))
  IN loadScript(IF failedScript # 0 THEN RemoveAt(dom, failedScript) ELSE dom,
                t.key, t.url, t.attempt + 1)

RetryTimer(t) ==
  /\ t \in timers
  /\ timers' = timers \ { t }
  /\ head' = Retry(head, t)
  /\ UNCHANGED << tab, jar, flag, page, frames, nav, popupVars, ops, calls, pureVars >>

(***************************************************************************)
(* The extension and its tab.                                              *)
(***************************************************************************)
PopupNext ==
  \/ \E i \in Slots, p \in Saved : ApplyAccept(i, p)
  \/ \E i \in Slots, p \in Saved : OverlayAccept(i, p)
  \/ \E i \in Slots, p \in Saved : DisableAccept(i, p)
  \/ \E i \in Slots, p \in Saved : DeleteAccept(i, p.name)
  \/ \E i \in Slots : ClearGetAll(i)
  \/ \E i \in Slots : \E c \in ops[i].pend : ClearRemoveAck(i, c)
  \/ \E i \in Slots : ApplyCont(i)
  \/ \E i \in Slots : ApplyExec(i)
  \/ \E i \in Slots : ApplyExecReject(i)
  \/ \E i \in Slots : ApplyThen(i)
  \/ \E i \in Slots : OverlayCont(i)
  \/ \E i \in Slots : OverlayExec(i)
  \/ \E i \in Slots : OverlayExecReject(i)
  \/ \E i \in Slots : OverlayThen(i)
  \/ \E i \in Slots : \E k \in ops[i].wait : DisableGetAll(i, k)
  \/ \E i \in Slots : \E k \in ops[i].pend : DisableRemoveAck(i, k)
  \/ \E i \in Slots : DisableExec(i)
  \/ \E i \in Slots : DisableExecReject(i)
  \/ \E i \in Slots : DisableThen(i)
  \/ \E i \in Slots : DeleteCallback(i)

\* The page while every script load succeeds.
PageOkNext ==
  \/ InjectorStart
  \/ DomReady
  \/ \E n \in 1..Len(head) : ScriptLoad(n)

\* The popup and its tab, on a network where every script load succeeds.
Next == PopupNext \/ PageLoad \/ PageOkNext

Spec == Init /\ [][Next]_vars

(***************************************************************************)
(* The same, with the form: profiles are created and edited.               *)
(***************************************************************************)
EntryEB == [appName |-> << "e" >>, featureKey |-> << "b" >>, url |-> UrlHttps]

\* What the user types: a stored name, a stored name with a space after it,
\* a new name; and one list of entries.
FormNames == { << "A" >>, << "B", " " >>, << "C" >> }
FormEntries == { << EntryEB >> }

SaveNext ==
  \/ \E i \in Slots, e \in Saved \cup { NoProfile }, n \in FormNames, t \in FormEntries :
       SaveAccept(i, e, n, t)
  \/ \E i \in Slots : SaveCallback(i)
  \/ \E i \in Slots : SaveTimer(i)
  \/ ErrorTimeout

SpecEdit == Init /\ [][Next \/ SaveNext]_vars

(***************************************************************************)
(* The same, with saveProfile called on whatever the form holds, an empty  *)
(* name or an empty list of entries included, and with a host that answers *)
(* every cookie request and runs every continuation.                       *)
(***************************************************************************)
AnyFormNames == FormNames \cup { << >> }
AnyFormEntries == FormEntries \cup { << >> }

SaveAnyForm ==
  \E i \in Slots, e \in Saved \cup { NoProfile }, n \in AnyFormNames, t \in AnyFormEntries :
    saveProfile(i, e, n, t)

\* The host's part in releasing isLoading: the cookie callbacks of
\* clearAllOverrideCookies and the continuation of its await.
BusyFairness ==
  /\ \A i \in Slots : WF_vars(ClearGetAll(i))
  /\ \A i \in Slots : WF_vars(\E c \in ops[i].pend : ClearRemoveAck(i, c))
  /\ \A i \in Slots : WF_vars(ApplyCont(i))
  /\ \A i \in Slots : WF_vars(OverlayCont(i))

SpecBusy == Init /\ [][Next \/ SaveNext \/ SaveAnyForm]_vars /\ BusyFairness

(***************************************************************************)
(* The same, with a user who also reloads the tab by hand.                 *)
(***************************************************************************)
\* The user reloads the tab: a normal reload, asked for when no other reload
\* is on its way.
UserReload ==
  /\ nav = NoNav
  /\ page.inj # "none"
  /\ nav' = [by |-> "user", call |-> calls, prof |-> NoProfile, bypassCache |-> FALSE]
  /\ UNCHANGED << tab, jar, flag, pageVars, popupVars, ops, calls, pureVars >>

SpecReload == Init /\ [][Next \/ UserReload]_vars

(***************************************************************************)
(* One page instance with the popup idle: every load event and the retry   *)
(* timers.                                                                 *)
(***************************************************************************)
PageNext ==
  \/ InjectorStart
  \/ DomReady
  \/ \E n \in 1..Len(head) : ScriptLoad(n)
  \/ \E n \in 1..Len(head) : ScriptError(n)
  \/ \E n \in 1..Len(head) : ScriptAbort(n)
  \/ \E t \in timers : RetryTimer(t)


\* The cookies the page starts with: those of both profiles, or override
\* cookies whose keys differ only in a character btoa turns into "+" or "/",
\* beside a name that is no override key.
PageJars ==
  { WriteCookies(<< SessionCookie >>, cookieArray(ProfileA) \o cookieArray(ProfileB)),
    << [name |-> << "a", "/", ">" >>, value |-> encodeURIComponent(UrlHttps)],
       [name |-> << "/" >>, value |-> encodeURIComponent(UrlHttps)],
       [name |-> << "a", "/", "?" >>, value |-> encodeURIComponent(UrlHttp)] >> }

InitPage ==
  /\ tab = "ok"
  /\ jar \in PageJars
  /\ flag \in BOOLEAN
  /\ head = << >>
  /\ timers = {}
  /\ page = [by |-> NoNav, inj |-> "none"]
  /\ nav = NoNav
  /\ frames = 0
  /\ storage = << ProfileA, ProfileB >>
  /\ savedProfiles = << ProfileA, ProfileB >>
  /\ activeProfiles = << >>
  /\ isLoading = FALSE
  /\ error = NoError
  /\ ops = [i \in Slots |-> FreeOp]
  /\ calls = 0
  /\ input = << >>
  /\ output = << >>

SpecPage == InitPage /\ [][PageNext]_vars

(***************************************************************************)
(* The encoding alone: an entry is written as cookie text, the text is put *)
(* among other cookies the way document.cookie joins them, and the string  *)
(* is parsed by parseCookies.                                              *)
(***************************************************************************)
\* Names of one or two characters over a letter, "=", ";" and the space.
NameChars == { "a", "=", ";", " " }
CodecNames ==
  { << c >> : c \in NameChars } \cup { << c, d >> : c \in NameChars, d \in NameChars }

CodecFeatureKeys == { << "b" >>, << "b", "/", "j" >>, << "b", " " >>, << "=" >> }

\* Absolute http and https URLs, with characters encodeURIComponent escapes.
UrlEscapes == << "h", "t", "t", "p", ":", "/", "/", "e", "/", "%", "3", "B", ";", "a", "=", "b", " ", "c" >>
CodecUrls == { UrlHttps, UrlHttp, UrlEscapes }

\* The cookies around the pair: none, or one before and one after.
CodecContexts ==
  { [before |-> << >>, after |-> << >>],
    [before |-> << "s", "=", "1", ";", " " >>, after |-> << ";", " ", "z", "=", "2" >>] }

CodecInputs ==
  { [entry |-> [appName |-> a, featureKey |-> f, url |-> u], ctx |-> c] :
      a \in CodecNames, f \in CodecFeatureKeys, u \in CodecUrls, c \in CodecContexts }

InitCodec ==
  /\ tab = "ok"
  /\ jar = << >>
  /\ flag = FALSE
  /\ head = << >>
  /\ timers = {}
  /\ page = [by |-> NoNav, inj |-> "done"]
  /\ nav = NoNav
  /\ frames = 0
  /\ storage = << >>
  /\ savedProfiles = << >>
  /\ activeProfiles = << >>
  /\ isLoading = FALSE
  /\ error = NoError
  /\ ops = [i \in Slots |-> FreeOp]
  /\ calls = 0
  /\ input \in CodecInputs
  /\ output = << >>

\* encode, then parse.
RoundTrip ==
  /\ output = << >>
  /\ output' = << parseCookies(input.ctx.before \o CookieText(input.entry) \o input.ctx.after) >>
  /\ UNCHANGED << tab, jar, flag, pageVars, nav, popupVars, ops, calls, input >>

SpecCodec == InitCodec /\ [][RoundTrip]_vars

(***************************************************************************)
(* applyProfile and applyOverlay alone, with a cookie store that answers   *)
(* every getAll and acknowledges every remove.                             *)
(***************************************************************************)
ClearNext ==
  \/ \E i \in Slots, p \in Saved : ApplyAccept(i, p)
  \/ \E i \in Slots, p \in Saved : OverlayAccept(i, p)
  \/ \E i \in Slots : ClearGetAll(i)
  \/ \E i \in Slots : \E c \in ops[i].pend : ClearRemoveAck(i, c)
  \/ \E i \in Slots : ApplyCont(i)
  \/ \E i \in Slots : ApplyExec(i)
  \/ \E i \in Slots : ApplyExecReject(i)
  \/ \E i \in Slots : ApplyThen(i)
  \/ \E i \in Slots : OverlayCont(i)
  \/ \E i \in Slots : OverlayExec(i)
  \/ \E i \in Slots : OverlayExecReject(i)
  \/ \E i \in Slots : OverlayThen(i)

SpecClear ==
  /\ Init
  /\ [][ClearNext]_vars
  /\ \A i \in Slots : WF_vars(ClearGetAll(i))
  /\ \A i \in Slots : WF_vars(\E c \in ops[i].pend : ClearRemoveAck(i, c))

(***************************************************************************)
(* parseCookies alone, on cookie strings made of segments some of which    *)
(* are empty, have no "=", have no name, cannot be decoded, or repeat a    *)
(* name.                                                                   *)
(***************************************************************************)
ParseSegs ==
  { << >>,
    << " " >>,
    << "a" >>,
    << "=", "1" >>,
    << " ", "=", "1" >>,
    << "a", "=", "1" >>,
    << "a", " ", "=", "%", "4", "1" >>,
    << "b", "=", "%", "z" >>,
    << "c", "=", "2", "=", "3", " " >> }

RECURSIVE SegLists(_)
SegLists(n) ==
  IF n = 0 THEN { << >> }
  ELSE SegLists(n - 1) \cup { Append(q, g) : q \in SegLists(n - 1), g \in ParseSegs }

\* document.cookie joins its pairs with "; ".
RECURSIVE JoinSegs(_)
JoinSegs(q) ==
  IF q = << >> THEN << >>
  ELSE IF Len(q) = 1 THEN Head(q)
  ELSE Head(q) \o << ";", " " >> \o JoinSegs(Tail(q))

InitParse ==
  /\ tab = "ok"
  /\ jar = << >>
  /\ flag = FALSE
  /\ head = << >>
  /\ timers = {}
  /\ page = [by |-> NoNav, inj |-> "done"]
  /\ nav = NoNav
  /\ frames = 0
  /\ storage = << >>
  /\ savedProfiles = << >>
  /\ activeProfiles = << >>
  /\ isLoading = FALSE
  /\ error = NoError
  /\ ops = [i \in Slots |-> FreeOp]
  /\ calls = 0
  /\ input \in { [segs |-> q] : q \in SegLists(MaxSegs) \ { << >> } }
  /\ output = << >>

\* parseCookies on the joined string.
Parse ==
  /\ output = << >>
  /\ output' = << parseCookies(JoinSegs(input.segs)) >>
  /\ UNCHANGED << tab, jar, flag, pageVars, nav, popupVars, ops, calls, input >>

SpecParse == InitParse /\ [][Parse]_vars

(***************************************************************************)
(* The two rules for a cookie's name alone: the filter of                  *)
(* clearAllOverrideCookies and the injector's isValidOverrideKey.          *)
(***************************************************************************)
\* Cookie names of one to three characters.
RuleChars == { "/", "a", "=", "." }
RuleNames ==
  { << c >> : c \in RuleChars }
    \cup { << c, d >> : c \in RuleChars, d \in RuleChars }
    \cup { << c, d, e >> : c \in RuleChars, d \in RuleChars, e \in RuleChars }

InitRules ==
  /\ tab = "ok"
  /\ jar = << >>
  /\ flag = FALSE
  /\ head = << >>
  /\ timers = {}
  /\ page = [by |-> NoNav, inj |-> "done"]
  /\ nav = NoNav
  /\ frames = 0
  /\ storage = << >>
  /\ savedProfiles = << >>
  /\ activeProfiles = << >>
  /\ isLoading = FALSE
  /\ error = NoError
  /\ ops = [i \in Slots |-> FreeOp]
  /\ calls = 0
  /\ input \in { [name |-> n] : n \in RuleNames }
  /\ output = << >>

\* Both rules are applied to the name.
ApplyRules ==
  /\ output = << >>
  /\ output' = << [cleared |-> input.name \in OverrideCookieNames(<< [name |-> input.name,
                                                                     value |-> << "1" >>] >>),
                   candidate |-> isValidOverrideKey(input.name)] >>
  /\ UNCHANGED << tab, jar, flag, pageVars, nav, popupVars, ops, calls, input >>

SpecRules == InitRules /\ [][ApplyRules]_vars

(***************************************************************************)
(* Properties.                                                             *)
(***************************************************************************)
Range(seq) == { seq[n] : n \in 1..Len(seq) }

KeySet(profile) == Range(cookieKeys(profile))

\* The cookies of the jar whose name contains "/".
SlashCookies(j) == { c \in Range(j) : Includes(c.name, "/") }

\* The cookies a profile's entries stand for.
ProfileCookies(profile) ==
  { [name |-> OverrideKey(o), value |-> encodeURIComponent(o.url)] : o \in Range(profile.overrides) }

InFlight == { i \in Slots : ops[i].pc # "free" }

\* The last callback of call i has just run.
Completes(i, kind) == ops[i].kind = kind /\ ops[i].pc = "then" /\ ops'[i].pc = "free"

\* C1: when applyProfile(profile) completes on a tab that has an id and a
\* url, the cookies of the jar whose name contains "/" are exactly those of
\* the profile's entries.
C1_ApplyLeavesExactlyItsCookies ==
  [][\A i \in Slots :
       (tab = "ok" /\ Completes(i, "apply"))
       => SlashCookies(jar') = ProfileCookies(ops[i].prof)]_vars

\* C2: while a call has host-API callbacks outstanding the busy flag is true,
\* and no second call is in flight beside it.
C2_SingleFlight ==
  /\ \A i \in InFlight : isLoading
  /\ Cardinality(InFlight) <= 1

\* C3: on the page the reload of applyProfile(profile) loaded, when no call
\* was made after that one, once the injector has run and every script load
\* has succeeded, each entry of the profile whose url is an http or https URL
\* has exactly one script element, and its src is the entry's url.
C3_ApplyInjectsEachValidEntry ==
  (/\ tab = "ok"
   /\ page.by.by = "apply"
   /\ page.by.call = calls
   /\ page.inj \in { "done", "stopped" }
   /\ \A n \in 1..Len(head) : head[n].st = "loaded")
  => \A o \in Range(page.by.prof.overrides) :
       isValidUrl(o.url)
       => Cardinality({ n \in 1..Len(head) :
                          head[n].id = scriptId(OverrideKey(o)) /\ head[n].src = o.url }) = 1

\* C4: when disableProfile(profile) completes and no call was made after it,
\* no cookie named by one of the profile's keys is in the jar and the disable
\* flag is set; and the content script that runs on the page its reload loads
\* stops at the flag, injecting nothing.
C4_DisableClearsAndSuppresses ==
  [][/\ \A i \in Slots :
          (Completes(i, "disable") /\ calls = i)
          => (flag' /\ \A k \in KeySet(ops[i].prof) : ~HasCookie(jar', k))
     /\ (page.by.by = "disable" /\ page.by.call = calls' /\ page.inj = "none" /\ page'.inj # "none")
        => (page'.inj = "stopped" /\ head' = << >>)]_vars

\* C5: no step of disableProfile(profileA) removes or changes a cookie whose
\* name is not one of profileA's keys, and none adds a cookie.
C5_DisableScoped ==
  [][\A i \in Slots :
       (ops[i].kind = "disable" /\ ops'[i] # ops[i])
       => /\ \A c \in Range(jar) : c.name \notin KeySet(ops[i].prof) => c \in Range(jar')
          /\ Range(jar') \subseteq Range(jar)]_vars

\* disableProfile(ProfileA), the only call made, has removed ProfileA's
\* cookies from a jar that held both profiles' cookies, and ProfileB's cookie
\* is still there.
C5_Witness ==
  /\ calls = 1
  /\ \E i \in Slots : ops[i].kind = "disable" /\ ops[i].prof = ProfileA /\ ops[i].pc = "then"
  /\ \A k \in KeySet(ProfileA) : ~HasCookie(jar, k)
  /\ ProfileCookies(ProfileB) \subseteq Range(jar)

\* C6: once disableProfile's page function has run, no script element the
\* injector created for one of the profile's keys is left in the document.
C6_DisableRemovesInjected ==
  [][\A i \in Slots :
       (ops[i].kind = "disable" /\ ops[i].pc = "exec" /\ ops'[i].pc = "then")
       => \A k \in KeySet(ops[i].prof) : getElementById(head', scriptId(k)) = 0]_vars

\* C7: no key is attempted more than 3 times; the timer set after the n-th
\* failure waits 100 ms times n (100 before the 2nd attempt, 200 before the
\* 3rd); a failed 1st or 2nd attempt has its retry timer pending, and after
\* the 3rd failure no timer is pending for the key.
C7_RetryBound ==
  /\ \A n \in 1..Len(head) : head[n].attempt \in 1..3
  /\ \A t \in timers : t.attempt \in 1..2 /\ t.delay = 100 * t.attempt
  /\ \A n \in 1..Len(head) :
       head[n].st = "error"
       => IF head[n].attempt < 3
          THEN Cardinality({ t \in timers :
                               t.key = head[n].key /\ t.attempt = head[n].attempt }) = 1
          ELSE \A t \in timers : t.key # head[n].key

\* A third attempt has failed and nothing is scheduled for its key.
C7_Witness ==
  \E n \in 1..Len(head) :
    /\ head[n].st = "error"
    /\ head[n].attempt = 3
    /\ \A t \in timers : t.key # head[n].key

\* The keys the injector injects for: valid override keys with valid URLs.
InjectedKeys(j) ==
  { c.key : c \in { d \in Range(parseCookies(DocumentCookie(j))) :
                      isValidOverrideKey(d.key) /\ isValidUrl(d.value) } }

\* C8: the document never holds two script elements for one override key, be
\* it after an injection for a key whose id is already present or after a
\* retry.
C8_OneElementPerKey ==
  \A k \in InjectedKeys(jar) :
    Cardinality({ n \in 1..Len(head) : head[n].id = scriptId(k) }) <= 1

\* The injector has been through two keys of one derived id, and a retry has
\* replaced the element: there is one element of that id, made by the 2nd
\* attempt.
C8_Witness ==
  /\ page.inj = "done"
  /\ \E k1 \in InjectedKeys(jar), k2 \in InjectedKeys(jar) :
       /\ k1 # k2
       /\ scriptId(k1) = scriptId(k2)
       /\ Cardinality({ n \in 1..Len(head) : head[n].id = scriptId(k1) }) = 1
       /\ \E n \in 1..Len(head) : head[n].id = scriptId(k1) /\ head[n].attempt = 2

\* The entry's pair is in the parsed map with the entry's key and url.
RoundTrips ==
  \E n \in 1..Len(output[1]) :
    /\ output[1][n].key = OverrideKey(input.entry)
    /\ output[1][n].value = input.entry.url

PlainKey(key) == ~Includes(key, "=") /\ ~Includes(key, ";") /\ Trim(key) = key

C10_DeleteStorageOnly ==
  [][\A i \in Slots :
       (ops'[i] # ops[i] /\ (ops[i].kind = "delete" \/ ops'[i].kind = "delete"))
       => /\ UNCHANGED << jar, flag, head, timers, frames, page, nav >>
          /\ ops[i].kind = "delete"
             => /\ ops[i].prof.name \notin Names(storage')
                /\ ops[i].prof.name \notin Names(savedProfiles')
                /\ ops[i].prof.name \notin Range(activeProfiles')]_vars

\* ProfileA was applied and then deleted: it is neither stored nor active,
\* and its cookies and its script element are still in the tab.
C10_Witness ==
  /\ InFlight = {}
  /\ page.by.by = "apply" /\ page.by.prof = ProfileA
  /\ "A" \notin Names(savedProfiles) \cup Names(storage) \cup Range(activeProfiles)
  /\ ProfileCookies(ProfileA) \subseteq Range(jar)
  /\ getElementById(head, scriptId(OverrideKey(EntryAB))) # 0

\* Call i has just changed, and is or becomes a call of this kind.
StepOf(i, kind) == ops'[i] # ops[i] /\ (ops[i].kind = kind \/ ops'[i].kind = kind)

\* The scripting call of call i has just rejected.
Rejects(i, kind) == ops[i].kind = kind /\ ops[i].pc = "exec" /\ ops'[i].pc = "free"

\* The page function of call i has just run.
Executes(i, kind) == ops[i].kind = kind /\ ops[i].pc = "exec" /\ ops'[i].pc = "then"

\* The clearAllOverrideCookies of call i has removed all of its snapshot.
Cleared(i) == ops[i].pend = {} /\ ops[i].removedCount = ops[i].totalToRemove

\* C12: within one applyProfile(profile) the cookies are written after
\* clearAllOverrideCookies has completed; when the scripting call has
\* succeeded the name is added to the active set and the reload asked for
\* bypasses the cache; when it rejects there is no reload and no change of
\* the active set.
C12_ApplyOrdering ==
  [][\A i \in Slots :
       /\ Executes(i, "apply") => (Cleared(i) /\ ~flag')
       /\ Completes(i, "apply")
          => /\ nav'.by = "apply"
             /\ nav'.bypassCache
             /\ ops[i].prof.name \in Range(activeProfiles')
       /\ Rejects(i, "apply") => (nav' = nav /\ activeProfiles' = activeProfiles)]_vars

\* C14: on a tab without id or without url no step of applyProfile,
\* applyOverlay (with their clearAllOverrideCookies) or disableProfile
\* changes the jar, the flag, the document or the active set, or asks for a
\* reload.
C14_NoTabNoOp ==
  [][\A i \in Slots :
       (tab # "ok" /\ (StepOf(i, "apply") \/ StepOf(i, "overlay") \/ StepOf(i, "disable")))
       => UNCHANGED << jar, flag, head, frames, activeProfiles, nav >>]_vars

\* C15: when the scripting call of applyProfile, applyOverlay or
\* disableProfile rejects, the error message is set, there is no reload and
\* no change of the active set, and the popup is not busy.
C15_FailureSurfaced ==
  [][\A i \in Slots :
       (Rejects(i, "apply") \/ Rejects(i, "overlay") \/ Rejects(i, "disable"))
       => /\ error' # NoError
          /\ nav' = nav
          /\ activeProfiles' = activeProfiles
          /\ ~isLoading']_vars

\* C17: no step of applyOverlay(profile) reloads or navigates the tab or
\* changes the stored collection; the only change to the active set is that
\* the profile's name is added, which it is when the call completes; and its
\* page function runs when clearAllOverrideCookies has removed its snapshot,
\* writes the profile's cookies and adds the frame with its controls.
C17_OverlayInPlace ==
  [][\A i \in Slots :
       /\ StepOf(i, "overlay")
          => /\ UNCHANGED << nav, page, storage, savedProfiles >>
             /\ Range(activeProfiles) \subseteq Range(activeProfiles')
             /\ Range(activeProfiles') \subseteq
                  Range(activeProfiles)
                    \cup { IF ops[i].kind = "overlay" THEN ops[i].prof.name
                                                     ELSE ops'[i].prof.name }
       /\ Executes(i, "overlay")
          => /\ Cleared(i)
             /\ ProfileCookies(ops[i].prof) \subseteq Range(jar')
             /\ frames' = frames + 1
       /\ Completes(i, "overlay") => ops[i].prof.name \in Range(activeProfiles')]_vars

\* applyOverlay(ProfileB), the only call made, has completed on a tab whose
\* jar held both profiles' cookies: the jar holds ProfileB's override cookies
\* only, the frame is in the page, ProfileB is active, and no reload was made
\* or is asked for.
C17_Witness ==
  /\ calls = 1
  /\ InFlight = {}
  /\ tab = "ok"
  /\ frames = 1
  /\ activeProfiles = << "B" >>
  /\ SlashCookies(jar) = ProfileCookies(ProfileB)
  /\ Len(head) = 2
  /\ nav = NoNav
  /\ page.by = NoNav

\* clearAllOverrideCookies of call i has not resolved yet.
Clearing(i) == ops[i].pc \in { "clear_getall", "clear_remove" }

\* C13: clearAllOverrideCookies resolves at getAll's callback exactly when
\* the snapshot is empty; otherwise it waits for the snapshot's cookies and
\* no others, and resolves at the callback of the last of their removals, in
\* whatever order they come; once resolved it does not resolve again; and
\* with every removal acknowledged it does resolve.
C13_ClearAllCompletion ==
  /\ [][\A i \in Slots :
          /\ (ops[i].pc = "clear_getall" /\ ops'[i] # ops[i])
             => /\ ops'[i].pend = OverrideCookieNames(jar)
                /\ ops'[i].totalToRemove = Cardinality(OverrideCookieNames(jar))
                /\ ops'[i].pc = IF OverrideCookieNames(jar) = {} THEN "cont" ELSE "clear_remove"
          /\ (ops[i].pc = "clear_remove" /\ ops'[i] # ops[i])
             => /\ \E c \in ops[i].pend : ops'[i].pend = ops[i].pend \ { c }
                /\ ops'[i].pc = IF ops'[i].pend = {} THEN "cont" ELSE "clear_remove"
          /\ (ops[i].kind # "none" /\ ~Clearing(i)) => ~Clearing(i)']_vars
  /\ \A i \in Slots : Clearing(i) ~> (ops[i].pc = "cont")

\* A clearAllOverrideCookies whose snapshot held the three override cookies
\* has resolved, with all three removals acknowledged and the cookies gone.
C13_Witness ==
  \E i \in Slots :
    /\ ops[i].pc = "cont"
    /\ ops[i].totalToRemove = 3
    /\ ops[i].removedCount = 3
    /\ ops[i].pend = {}
    /\ SlashCookies(jar) = {}

\* C19 as claimed: clearAllOverrideCookies selects a cookie name for removal
\* if and only if isValidOverrideKey accepts it.
C19_RulesAgree ==
  output # << >> => (output[1].cleared <=> output[1].candidate)

\* C19 as amended: the two rules agree on every cookie name but "/", which
\* clearAllOverrideCookies selects and isValidOverrideKey rejects; every name
\* isValidOverrideKey accepts is selected.
C19_RulesAgreeButSlash ==
  output # << >>
  => /\ input.name # << "/" >> => (output[1].cleared <=> output[1].candidate)
     /\ input.name = << "/" >> => (output[1].cleared /\ ~output[1].candidate)
     /\ output[1].candidate => output[1].cleared

\* The shortest name both rules accept has been through them.
C19_Witness ==
  /\ output # << >>
  /\ input.name = << "a", "/" >>
  /\ output[1].cleared
  /\ output[1].candidate

\* The cookies parseCookies reads from the jar whose name contains "/" and
\* is longer than one character and whose decoded value starts with the
\* scheme http or https.
HttpOverrides(j) ==
  { c \in Range(parseCookies(DocumentCookie(j))) :
      /\ Includes(c.key, "/")
      /\ Len(c.key) > 1
      /\ \/ StartsWith(c.value, << "h", "t", "t", "p", ":", "/", "/" >>)
         \/ StartsWith(c.value, << "h", "t", "t", "p", "s", ":", "/", "/" >>) }

\* C20: every script element the injector has created is for a cookie whose
\* name is a candidate and whose decoded value is an http or https URL, with
\* that value as its src; and once the injector has been through the cookies
\* every such cookie has the element of its id, whatever cookies came before
\* it.
C20_InjectionFilter ==
  /\ \A n \in 1..Len(head) :
       \E c \in HttpOverrides(jar) : c.key = head[n].key /\ c.value = head[n].src
  /\ page.inj = "done"
     => \A c \in HttpOverrides(jar) : getElementById(head, scriptId(c.key)) # 0

\* The injector has been through s=1, a/b (https), a/c (ftp) and d/b (http):
\* it has made the elements for a/b and d/b and none for a/c.
C20_Witness ==
  /\ page.inj = "done"
  /\ HasCookie(jar, OverrideKey(EntryAC))
  /\ Len(head) = 2
  /\ getElementById(head, scriptId(OverrideKey(EntryAB))) # 0
  /\ getElementById(head, scriptId(OverrideKey(EntryDB))) # 0
  /\ getElementById(head, scriptId(OverrideKey(EntryAC))) = 0

\* C18: when the user reloads the tab after disableProfile has completed
\* and its own reload has loaded, with no call made since and none in
\* flight, the flag is no longer set and the content script does not stop at
\* it: it injects the elements of the override cookies still in the jar.
C18_FlagClearedByReload ==
  [][(/\ page.by.by = "user"
      /\ page.by.call = calls
      /\ InFlight = {}
      /\ nav = NoNav
      /\ page.inj = "none"
      /\ page'.inj # "none")
     => /\ ~flag
        /\ page'.inj # "stopped"
        /\ page'.inj = "done"
           => \A c \in HttpOverrides(jar) : getElementById(head', scriptId(c.key)) # 0]_vars


(***************************************************************************)
(* Saving an edit of an active profile.                                    *)
(***************************************************************************)
\* The call is the last one made and nothing else of the popup is under way.
Alone(i) == calls = i /\ InFlight \subseteq { i }

\* What the tab and the popup hold once the edited profile is in effect.
Reapplied(profile, was) ==
  /\ SlashCookies(jar') = ProfileCookies(profile)
  /\ ~flag'
  /\ Includes(activeProfiles', profile.name)
  /\ was.name # profile.name => ~Includes(activeProfiles', was.name)

\* The call is saveProfile's, made now for an edit of a profile that is in
\* the active set, on a tab that has a url.
SavesActive(i) ==
  /\ tab = "ok"
  /\ ops[i] = FreeOp
  /\ ops'[i].outer = "save"
  /\ ops'[i].editing # NoProfile
  /\ Includes(activeProfiles, ops'[i].editing.name)

\* C11: when the profile being edited is active at save time, the save
\* disables the old version, persists the updated collection and then
\* re-applies the updated profile, also when the edit changes the name: the
\* call starts by disabling the profile as it was, the storage callback of
\* such a save stores the collection and leaves the re-apply pending, and the
\* apply that ends it leaves the updated profile's cookies, the flag clear
\* and the new name in the active set.
C11_EditReappliesActive ==
  [][\A i \in Slots :
       /\ SavesActive(i)
          => /\ ops'[i].kind = "disable"
             /\ ops'[i].prof = ops'[i].editing
             /\ ops'[i].reapply
       /\ (StepOf(i, "save") /\ ops[i].pc = "callback" /\ ops[i].reapply)
          => (storage' = ops[i].updated /\ ops'[i].pc = "timer")
       /\ (tab = "ok" /\ Alone(i) /\ ops[i].outer = "save" /\ Completes(i, "apply"))
          => Reapplied(ops[i].next, ops[i].editing)]_vars

\* C16: no two stored profiles share a name, after creations and after
\* edits, an edit that renames a profile to another stored name included.
C16_NamesUnique ==
  /\ \A m, n \in 1..Len(storage) : m # n => storage[m].name # storage[n].name
  /\ \A m, n \in 1..Len(savedProfiles) :
       m # n => savedProfiles[m].name # savedProfiles[n].name


(***************************************************************************)
(* The element id as an encoding of the key.                               *)
(***************************************************************************)
\* C21: two distinct override keys the injector injects for have distinct
\* element ids, so once the injector has been through the cookies every such
\* key has an element of its own: none is taken as already loaded because of
\* the element of another key.
C21_ElementIdInjective ==
  page.inj = "done"
  => /\ \A k1 \in InjectedKeys(jar), k2 \in InjectedKeys(jar) :
          k1 # k2 => scriptId(k1) # scriptId(k2)
     /\ \A k \in InjectedKeys(jar) : \E n \in 1..Len(head) : head[n].key = k


(***************************************************************************)
(* The retry loops of different keys.                                      *)
(***************************************************************************)
\* The elements whose handlers were made for a key, and the key's timers.
ElementsOf(dom, k) == SelectSeq(dom, LAMBDA e : e.key = k)
TimersOf(ts, k) == { t \in ts : t.key = k }

\* What one event does to the key it is about, given the key's own element
\* and timers only: a load, an error at attempt n (a timer of 100 ms times n
\* when n < 3, none at 3), an abort, a retry timer firing.
OwnStep(e, ts, f, us) ==
  /\ Len(e) = 1
  /\ Len(f) = 1
  /\ \/ e[1].st = "loading" /\ f[1] = [e[1] EXCEPT !.st = "loaded"] /\ us = ts
     \/ e[1].st = "loading" /\ f[1] = [e[1] EXCEPT !.st = "aborted"] /\ us = ts
     \/ /\ e[1].st = "loading"
        /\ f[1] = [e[1] EXCEPT !.st = "error"]
        /\ ts = {}
        /\ us = IF e[1].attempt < 3
                THEN { [key |-> e[1].key, url |-> e[1].src, attempt |-> e[1].attempt,
                        delay |-> 100 * e[1].attempt] }
                ELSE {}
     \/ /\ e[1].st = "error"
        /\ Cardinality(ts) = 1
        /\ us = {}
        /\ f[1] = [e[1] EXCEPT !.st = "loading", !.attempt = e[1].attempt + 1]

\* C22: every load, error, abort and retry-timer event is the event of one
\* key: it leaves the elements and timers of every other key as they were,
\* and what it does to its own key (the next attempt, the timer, the
\* outcome) is determined by that key's own element and timers.
C22_RetryIndependent ==
  [][page' = page
     => \E k \in InjectedKeys(jar) :
          /\ OwnStep(ElementsOf(head, k), TimersOf(timers, k),
                     ElementsOf(head', k), TimersOf(timers', k))
          /\ \A k2 \in InjectedKeys(jar) \ { k } :
               /\ ElementsOf(head', k2) = ElementsOf(head, k2)
               /\ TimersOf(timers', k2) = TimersOf(timers, k2)]_vars

\* One key has been given up after its 3rd failure while another key, injected
\* on the same page, loaded at its 1st attempt.
C22_Witness ==
  \E m, n \in 1..Len(head) :
    /\ head[m].key # head[n].key
    /\ head[m].st = "error" /\ head[m].attempt = 3
    /\ head[n].st = "loaded" /\ head[n].attempt = 1


(***************************************************************************)
(* Abort.                                                                  *)
(***************************************************************************)
\* C23: the abort of a key's loading element sets no timer, at whatever
\* attempt it happens; and once a key's element has aborted, no timer is
\* pending for the key and no later event changes the element: there is no
\* further attempt for the key on this page.
C23_AbortDoesNotRetry ==
  [][\A n \in 1..Len(head) :
       /\ (head[n].st = "loading" /\ Len(head') = Len(head) /\ head'[n].st = "aborted")
          => timers' = timers
       /\ head[n].st = "aborted"
          => /\ TimersOf(timers, head[n].key) = {}
             /\ TimersOf(timers', head[n].key) = {}
             /\ ElementsOf(head', head[n].key) = ElementsOf(head, head[n].key)]_vars

\* A 3rd attempt has aborted, and so has a 1st attempt of another key.
C23_Witness ==
  \E m, n \in 1..Len(head) :
    /\ head[m].st = "aborted" /\ head[m].attempt = 3
    /\ head[n].st = "aborted" /\ head[n].attempt = 1


(***************************************************************************)
(* parseCookies on strings with bad segments.                              *)
(***************************************************************************)
\* A segment's name and raw value: what stands before and after its first
\* "=", the white space around the segment and around the name left out.
SegName(g) == Trim(SubSeq(Trim(g), 1, IndexOf(Trim(g), "=") - 1))
SegRaw(g) == SubSeq(Trim(g), IndexOf(Trim(g), "=") + 1, Len(Trim(g)))

\* A segment that is not skipped: not empty, with an "=", with a name.
WellFormed(g) == Trim(g) # << >> /\ Includes(g, "=") /\ SegName(g) # << >>

\* The value the segment is kept with: decoded, or raw when it cannot be
\* decoded.
SegValue(g) ==
  IF decodeURIComponent(SegRaw(g)).ok THEN decodeURIComponent(SegRaw(g)).val ELSE SegRaw(g)

\* The pair of segment n of the input is in the map.
Kept(n) ==
  \E e \in Range(output[1]) :
    e.key = SegName(input.segs[n]) /\ e.value = SegValue(input.segs[n])

\* Every pair of the map is the pair of a well-formed segment: a skipped
\* segment leaves nothing in it.
OnlyWellFormed ==
  \A e \in Range(output[1]) :
    \E n \in 1..Len(input.segs) :
      /\ WellFormed(input.segs[n])
      /\ e.key = SegName(input.segs[n])
      /\ e.value = SegValue(input.segs[n])

\* C24 as claimed: parseCookies returns a map for every string; skipped
\* segments leave nothing in it; and every well-formed segment is in it,
\* with its decoded value, or its raw value when that cannot be decoded,
\* whatever the other segments of the string are.
C24_EverySegmentKept ==
  output # << >>
  => /\ OnlyWellFormed
     /\ \A n \in 1..Len(input.segs) : WellFormed(input.segs[n]) => Kept(n)

\* C24 as amended: the same, for the well-formed segments whose name no
\* later well-formed segment of the string repeats.
C24_LastSegmentOfNameKept ==
  output # << >>
  => /\ OnlyWellFormed
     /\ \A n \in 1..Len(input.segs) :
          (/\ WellFormed(input.segs[n])
           /\ \A k \in (n + 1)..Len(input.segs) :
                WellFormed(input.segs[k]) => SegName(input.segs[k]) # SegName(input.segs[n]))
          => Kept(n)

\* A string of a segment that cannot be decoded, a skipped one and a
\* decodable one has been parsed: the map holds the first with its raw value
\* and the last with its decoded value.
C24_Witness ==
  /\ output # << >>
  /\ input.segs = << << "b", "=", "%", "z" >>, << "=", "1" >>,
                     << "a", " ", "=", "%", "4", "1" >> >>
  /\ output[1] = << [key |-> << "b" >>, value |-> << "%", "z" >>],
                    [key |-> << "a" >>, value |-> << "A" >>] >>


C26_ActiveWithinStored ==
  InFlight = {}
  => \A n \in Range(activeProfiles) : n \in Names(storage) /\ n \in Names(savedProfiles)


\* C27: with no operation in flight, every stored profile whose name is in
\* the active set has each of its override cookies in the jar, with the
\* encoded url of its entry.
C27_ActiveAgreesWithJar ==
  InFlight = {}
  => \A p \in Saved :
       Includes(activeProfiles, p.name) => ProfileCookies(p) \subseteq Range(jar)

====
